---- MODULE Spec2Model ----
(***************************************************************************)
(* A model of the alpacas-cli command session: the CommandManager with its *)
(* lazily built command registry and alias table (commands/manager.py),    *)
(* the alias command (commands/alias.py), the portfolio load/unload        *)
(* commands (commands/portfolio.py), the analysis command                  *)
(* (commands/analysis.py) and the background runner of an analysis         *)
(* (analysis/core.py, analysis/analysis.py).                               *)
(*                                                                         *)
(* Python values are encoded as follows.  An Optional value is a set with  *)
(* at most one element (None is {}), a dict is a function, a str is a      *)
(* string, and the text typed at the analysis prompt, which has structure  *)
(* the code takes apart, is a record [form, n].                            *)
(***************************************************************************)
EXTENDS Integers, Sequences, FiniteSets, TLC

VARIABLES
    commands,               \* CommandManager.commands: None or the registry
    built,                  \* how many times _init_commands has made the handler objects
    aliases,                \* CommandManager.aliases: None or the alias dict
    alias_file,             \* the content of configs/aliases.json
    loaded_portfolio_name,  \* CommandManager.loaded_portfolio_name
    keys,                   \* CommandManager.keys
    client,                 \* CommandManager.client
    alpaca_file,            \* the content of configs/alpaca.json
    analysis_runners,       \* CommandManager.analysis_runners (a list of runner ids)
    running_analyses,       \* AnalysisCommand.running_analyses (its key set)
    runners,                \* the AsyncAnalysisRunner objects, by creation number
    stop_requested,         \* SampleAnalysis._stop_requested (one shared instance)
    pc,                     \* where the main thread is
    command,                \* run_command_loop: the command typed last
    result,                 \* run_command_loop: the CommandResult received last
    escaped,                \* what execute_command raised into the loop last
    io,                     \* the answers given to the prompts of the last handler
    added,                  \* the last (alias, command) passed to add_alias, if not removed since
    stop_typed,             \* the runner ids typed as "stop <id>" while they ran
    gr,                     \* get_result: the call in progress
    got,                    \* get_result: what the last call returned
    sa,                     \* _stop_analysis: the call in progress
    api,                    \* what the last direct call of a method did
    stop_called,            \* the runners whose stop() was called by such a call
    exit_code               \* what main returned

vars == <<commands, built, aliases, alias_file, loaded_portfolio_name, keys, client,
          alpaca_file, analysis_runners, running_analyses, runners,
          stop_requested, pc, command, result, escaped, io, added, stop_typed,
          gr, got, sa, api, stop_called, exit_code>>

aliasVars == <<aliases, alias_file, added>>
portfolioVars == <<loaded_portfolio_name, keys, client, alpaca_file>>
runnerVars == <<analysis_runners, running_analyses, runners, stop_typed>>
callVars == <<sa, api, stop_called, exit_code>>
observerVars == <<gr, got, sa, api, stop_called, exit_code>>

(***************************************************************************)
(* Bounds of the model.                                                    *)
(***************************************************************************)
MaxFileEntries == 2     \* entries of the alias file found at start-up
MaxRunners == 1         \* analyses started in one session
MaxPrompts == 3         \* lines read by one call of get_validated_input
MaxShared == 2          \* analyses started in a session that runs them side by side

(***************************************************************************)
(* Values.                                                                 *)
(***************************************************************************)
None == {}
Some(v) == {v}
The(o) == CHOOSE v \in o : TRUE

EmptyDict == <<>>

Msg(text, arg) == <<text, arg>>
NoMessage == Msg("None", "")

CommandResult(success, message, should_exit) ==
    [success |-> success, message |-> message, should_exit |-> should_exit]

\* CommandManager._init_commands: the names of the registry.
Registered ==
    {"clear", "init", "load", "unload", "alias", "list", "help", "overview",
     "info", "exchanges", "exit", "trade_asset", "trade_crypto", "load_last",
     "performance", "analysis", "list_tickers", "add_tickers", "banner"}

\* Names a user types that are no command.
AliasKeys == {"b", "q", "exit"}
AliasTargets == {"info", "q"}

\* The alias tables the alias file may hold at start-up.
Tables ==
    UNION {[D -> AliasTargets] :
             D \in {S \in SUBSET AliasKeys : Cardinality(S) <= MaxFileEntries}}

AliasFiles ==
    {[state |-> "absent", table |-> EmptyDict],
     [state |-> "corrupt", table |-> EmptyDict]}
      \cup {[state |-> "json", table |-> t] : t \in Tables}

(***************************************************************************)
(* The alias table of the CommandManager.                                  *)
(***************************************************************************)
\* A _load_aliases that reads the file on every call.
load_aliasesEveryTime(al, file) ==
    IF file.state = "json" THEN Some(file.table) ELSE Some(EmptyDict)

\* _load_aliases: loads only when self.aliases is None; a missing file and a
\* file json.load rejects both leave the empty dict assigned first.
load_aliases(al, file) ==
    IF al # None THEN al
    ELSE IF file.state = "json" THEN Some(file.table) ELSE Some(EmptyDict)

\* _save_aliases: open("w") and json.dump; a failure is printed, not raised.
\* how = "ok": written; "open_failed": open raised, file untouched;
\* "dump_failed": the file was truncated and the write did not complete.
SaveOutcomes == {"ok", "open_failed", "dump_failed"}

save_aliases(table, file, how) ==
    CASE how = "ok" -> [state |-> "json", table |-> table]
      [] how = "open_failed" -> file
      [] OTHER -> [state |-> "corrupt", table |-> EmptyDict]

\* add_alias: "[alias] = command" unpacks the str command into a one-target
\* list: it rebinds the local name alias when command has one character and
\* raises ValueError otherwise; self.aliases is never assigned to.
add_alias(table, file, alias, cmd, how) ==
    IF Len(cmd) = 1
    THEN [raised |-> FALSE, table |-> table, file |-> save_aliases(table, file, how)]
    ELSE [raised |-> TRUE, table |-> table, file |-> file]

Without(table, alias) == [k \in DOMAIN table \ {alias} |-> table[k]]

\* A remove_alias that clears the whole table instead of one key.
remove_aliasDropsAll(table, file, alias, how) ==
    IF alias \in DOMAIN table
    THEN [table |-> EmptyDict, file |-> save_aliases(EmptyDict, file, how)]
    ELSE [table |-> table, file |-> file]

\* remove_alias: deletes the key and saves, only when the key is present.
remove_alias(table, file, alias, how) ==
    IF alias \in DOMAIN table
    THEN [table |-> Without(table, alias),
          file |-> save_aliases(Without(table, alias), file, how)]
    ELSE [table |-> table, file |-> file]

\* The table self.aliases holds once _load_aliases has run.
AliasesLoaded == The(load_aliases(aliases, alias_file))

\* table with table[alias] = cmd
WithEntry(table, alias, cmd) ==
    [k \in DOMAIN table \cup {alias} |-> IF k = alias THEN cmd ELSE table[k]]

\* A get_aliases that hands out the manager's own dict.
get_aliasesReturnsTable == [obj |-> "self.aliases", value |-> AliasesLoaded]

\* get_aliases: self.aliases.copy(), a new dict with the entries of the loaded
\* table.  obj names the object the caller holds.
get_aliases == [obj |-> "copy", value |-> AliasesLoaded]

(***************************************************************************)
(* The alias command.                                                      *)
(***************************************************************************)
AliasSubcommands == {"set", "remove", "list", "help"}

\* is_valid_alias_subcommand
is_valid_alias_subcommand(value, alias_subcommands) == value \in alias_subcommands

\* A _set_alias without the check of the alias against the registry and the
\* table.
set_aliasDropConflictCheck(table, file, cmd_name, alias, how) ==
    IF cmd_name \notin Registered
    THEN [result |-> CommandResult(FALSE, Msg("Command does not exist", cmd_name), FALSE),
          table |-> table, file |-> file, called |-> FALSE]
    ELSE LET r == add_alias(table, file, alias, cmd_name, how) IN
         [result |-> IF r.raised
                     THEN CommandResult(FALSE, Msg("Error managing aliases", "ValueError"), FALSE)
                     ELSE CommandResult(TRUE, Msg("Alias created", alias), FALSE),
          table |-> r.table, file |-> r.file, called |-> TRUE]

\* AliasCommand._set_alias, with the try/except of AliasCommand.execute around it.
set_alias(table, file, cmd_name, alias, how) ==
    IF cmd_name \notin Registered
    THEN [result |-> CommandResult(FALSE, Msg("Command does not exist", cmd_name), FALSE),
          table |-> table, file |-> file, called |-> FALSE]
    ELSE IF alias \in Registered \/ alias \in DOMAIN table
    THEN [result |-> CommandResult(FALSE, Msg("Alias already exists or conflicts", alias), FALSE),
          table |-> table, file |-> file, called |-> FALSE]
    ELSE LET r == add_alias(table, file, alias, cmd_name, how) IN
         [result |-> IF r.raised
                     THEN CommandResult(FALSE, Msg("Error managing aliases", "ValueError"), FALSE)
                     ELSE CommandResult(TRUE, Msg("Alias created", alias), FALSE),
          table |-> r.table, file |-> r.file, called |-> TRUE]

\* A _remove_alias without the check that the alias is in the table.
remove_alias_commandNoMembershipCheck(table, file, alias, how) ==
    IF table = EmptyDict
    THEN [result |-> CommandResult(FALSE, Msg("No aliases defined.", ""), FALSE),
          table |-> table, file |-> file]
    ELSE LET r == remove_alias(table, file, alias, how) IN
         [result |-> CommandResult(TRUE, Msg("Alias removed", alias), FALSE),
          table |-> r.table, file |-> r.file]

\* AliasCommand._remove_alias
remove_alias_command(table, file, alias, how) ==
    IF table = EmptyDict
    THEN [result |-> CommandResult(FALSE, Msg("No aliases defined.", ""), FALSE),
          table |-> table, file |-> file]
    ELSE IF alias \notin DOMAIN table
    THEN [result |-> CommandResult(FALSE, Msg("Alias does not exist", alias), FALSE),
          table |-> table, file |-> file]
    ELSE LET r == remove_alias(table, file, alias, how) IN
         [result |-> CommandResult(TRUE, Msg("Alias removed", alias), FALSE),
          table |-> r.table, file |-> r.file]

\* AliasCommand._list_aliases
list_aliases(table) ==
    IF table = EmptyDict
    THEN CommandResult(TRUE, Msg("No aliases defined.", ""), FALSE)
    ELSE CommandResult(TRUE, NoMessage, FALSE)

(***************************************************************************)
(* The portfolio configuration (configs/alpaca.json) and the commands that *)
(* load and unload a portfolio.                                            *)
(***************************************************************************)
PortfolioNames == {"main", "ghost"}

\* read_available_portfolios: the names in the file; [] when the file is
\* missing; json.load's error is not caught here.
read_available_portfolios(file) ==
    CASE file.state = "json" -> [raised |-> FALSE, names |-> file.portfolios]
      [] file.state = "absent" -> [raised |-> FALSE, names |-> {}]
      [] OTHER -> [raised |-> TRUE, names |-> {}]

\* read_portfolio_keys: the keys of the named portfolio, {} when it is not
\* in the file or the file is missing.  The keys are named by their portfolio.
read_portfolio_keys(file, portfolio_name) ==
    IF file.state = "json" /\ portfolio_name \in file.portfolios
    THEN Some(portfolio_name) ELSE None

\* LoadPortfolioCommand._update_portfolio_config: last_used := portfolio_name,
\* creating the file when it is missing; an unreadable file starts from {}.
ConfigWrites == {"ok", "failed"}

update_portfolio_config(file, portfolio_name) ==
    [state |-> "json",
     portfolios |-> IF file.state = "json" THEN file.portfolios ELSE {},
     last_used |-> Some(portfolio_name)]

\* LoadPortfolioCommand.execute, from the state with no portfolio loaded.
load_portfolio(file, portfolio_name, how) ==
    LET avail == read_available_portfolios(file)
        same == [name |-> loaded_portfolio_name, keys |-> keys, file |-> file]
    IN
    IF avail.raised
    THEN same @@ [result |-> CommandResult(FALSE, Msg("Failed to load portfolio", "JSONDecodeError"), FALSE)]
    ELSE IF portfolio_name \notin avail.names
    THEN same @@ [result |-> CommandResult(FALSE, Msg("Portfolio does not exist", portfolio_name), FALSE)]
    ELSE IF how = "failed"
    THEN [name |-> Some(portfolio_name), keys |-> read_portfolio_keys(file, portfolio_name),
          file |-> file,
          result |-> CommandResult(FALSE, Msg("Failed to load portfolio", "OSError"), FALSE)]
    ELSE [name |-> Some(portfolio_name), keys |-> read_portfolio_keys(file, portfolio_name),
          file |-> update_portfolio_config(file, portfolio_name),
          result |-> CommandResult(TRUE, Msg("Successfully loaded portfolio", portfolio_name), FALSE)]

\* A check that never finds a portfolio active.
portfolio_activeNever(loaded) == FALSE

\* if context.loaded_portfolio_name: the check that opens load and load_last.
portfolio_active(loaded) == loaded # None

\* What "Portfolio ... is currently active" answers when one is loaded.
AlreadyActive ==
    CommandResult(FALSE, Msg("Portfolio is currently active", The(loaded_portfolio_name)), FALSE)

(***************************************************************************)
(* The background runner of an analysis.                                   *)
(***************************************************************************)
\* SampleAnalysis.run: for i in range(100)
Iterations == 100

\* AsyncAnalysisRunner.__init__: a thread not yet started, no result, no exception.
NewRunner ==
    [thread |-> "initial", at |-> "loop", i |-> 0, ret |-> None,
     result |-> None, exception |-> None]

RunnerIds == DOMAIN runners

\* An is_running that turns false as soon as the stop flag is set.
is_runningUnlessStopRequested(id) == runners[id].thread = "alive" /\ ~stop_requested

\* AsyncAnalysisRunner.is_running: thread.is_alive()
is_running(id) == runners[id].thread = "alive"

\* A get_result that forgets the failure and returns the empty output.
result_slotIgnoresFailure(id) == [raised |-> FALSE, value |-> runners[id].result]

\* AsyncAnalysisRunner.get_result, once the thread was seen not alive:
\* raise self.exception if there is one, else return self.result.
result_slot(id) ==
    IF runners[id].exception # None
    THEN [raised |-> TRUE, value |-> runners[id].exception]
    ELSE [raised |-> FALSE, value |-> runners[id].result]

\* A stop_all_analyses that stops no runner.
stop_all_analysesStopsNothing == stop_requested

\* CommandManager.stop_all_analyses: runner.stop() for every runner that is
\* running; stop() sets the flag of the one shared analysis object.
stop_all_analyses ==
    stop_requested \/ \E n \in 1..Len(analysis_runners) : is_running(analysis_runners[n])

(***************************************************************************)
(* The text typed at the analysis prompt.  [form, n] stands for:           *)
(*   "status", "stop", "sample_analysis", "other"  the word itself,        *)
(*   ""           an empty line,                                           *)
(*   "uuid"       the id of runner n,                                      *)
(*   "stop_id"    the line "stop <id of runner n>",                        *)
(*   "list_repr"  the text "['stop', '<id of runner n>']".                 *)
(***************************************************************************)
Text(form, n) == [form |-> form, n |-> n]

\* AsyncAnalysisRunner.id: str(uuid.uuid4()), one per runner.
Uuid(n) == Text("uuid", n)

AnalysisInputs ==
    {Text(f, 0) : f \in {"status", "stop", "sample_analysis", "other", ""}}
      \cup {Text("stop_id", n) : n \in 1..MaxRunners}
      \cup {Text("uuid", n) : n \in 1..MaxRunners}

\* AnalysisCommand._init_analyses: the keys of self.analyses.
Analyses == {"sample_analysis"}

\* AnalysisCommand.execute: ["status", "stop"] + list(self.analyses.keys())
valid_analysis_subcommands ==
    {Text("status", 0), Text("stop", 0)} \cup {Text(k, 0) : k \in Analyses}

\* is_non_empty_string
is_non_empty_string(value) == value.form # ""

\* is_valid_analysis_subcommand
is_valid_analysis_subcommand(value, valid_choices) == value \in valid_choices

\* get_validated_input: the value is returned when every validator accepts it.
accepted(value) ==
    is_non_empty_string(value)
      /\ is_valid_analysis_subcommand(value, valid_analysis_subcommands)

\* The validators of the analysis prompt and validator.__code__.co_argcount.
Validators == {"is_non_empty_string", "is_valid_analysis_subcommand"}

co_argcount(validator) == IF validator = "is_non_empty_string" THEN 1 ELSE 2

\* validator(value, *args) if co_argcount > 1 else validator(value); a call
\* with a missing or a surplus positional argument raises TypeError.
call_validator(validator, value, args) ==
    IF co_argcount(validator) > 1
    THEN IF Len(args) # 1 THEN "TypeError"
         ELSE IF is_valid_analysis_subcommand(value, args[1]) THEN "True" ELSE "False"
    ELSE IF is_non_empty_string(value) THEN "True" ELSE "False"

\* all(... for validator in validators), from the n-th validator on: the
\* generator stops at the first validator that does not return True.
RECURSIVE all_validators(_, _, _, _)
all_validators(validators, value, args, n) ==
    IF n > Len(validators) THEN "True"
    ELSE LET r == call_validator(validators[n], value, args) IN
         IF r = "True" THEN all_validators(validators, value, args, n + 1) ELSE r

\* A test of the line that is content with one accepting validator.
validateAny(validators, value, args) ==
    IF \E n \in 1..Len(validators) : call_validator(validators[n], value, args) = "True"
    THEN "True" ELSE "False"

\* get_validated_input: the test of the line read.
validate(validators, value, args) == all_validators(validators, value, args, 1)

\* choice.startswith("stop ")
startswith_stop(choice) == choice.form = "stop_id"

\* str(choice.split(" ", 1)): the text of the list, not the id in it.
split_repr(choice) == Text("list_repr", choice.n)

\* AnalysisCommand._stop_analysis
stop_analysis(analysis_id) ==
    IF analysis_id \notin running_analyses \/ ~is_running(analysis_id.n)
    THEN [result |-> CommandResult(FALSE, Msg("No running analysis with ID", ""), FALSE),
          stop |-> stop_requested]
    ELSE [result |-> CommandResult(TRUE, Msg("Stop signal sent", ""), FALSE),
          stop |-> TRUE]

\* AnalysisCommand.execute: the branch taken on an accepted choice.
analysis_branch(choice) ==
    CASE choice = Text("status", 0) -> "status"
      [] startswith_stop(choice) -> "stop"
      [] choice.form \in Analyses /\ choice.n = 0 -> "start"
      [] OTHER -> "unknown"

(***************************************************************************)
(* execute_command and the command loop.                                   *)
(***************************************************************************)
\* A lookup that runs the info command for a name it does not know.
dispatchFallsBackToInfo(command_name) ==
    LET actual_command == IF command_name \in DOMAIN AliasesLoaded
                          THEN AliasesLoaded[command_name] ELSE command_name
    IN  IF actual_command \in Registered
        THEN [kind |-> "handler", name |-> actual_command]
        ELSE [kind |-> "handler", name |-> "info"]

\* An execute_command that looks the typed name up in the registry first and
\* in the alias table only when it is no command.
dispatchRegistryFirst(command_name) ==
    LET actual_command == IF command_name \notin Registered
                             /\ command_name \in DOMAIN AliasesLoaded
                          THEN AliasesLoaded[command_name] ELSE command_name
    IN  IF actual_command \in Registered
        THEN [kind |-> "handler", name |-> actual_command]
        ELSE [kind |-> "unknown", name |-> command_name]

\* execute_command: self.aliases.get(command_name, command_name), then the
\* registry lookup.
dispatch(command_name) ==
    LET actual_command == IF command_name \in DOMAIN AliasesLoaded
                          THEN AliasesLoaded[command_name] ELSE command_name
    IN  IF actual_command \in Registered
        THEN [kind |-> "handler", name |-> actual_command]
        ELSE [kind |-> "unknown", name |-> command_name]

Handles(command_name, names) ==
    dispatch(command_name).kind = "handler" /\ dispatch(command_name).name \in names

UnknownResult(command_name) ==
    CommandResult(FALSE, Msg("Unknown command", command_name), FALSE)

\* run_command_loop: the except clauses.  KeyboardInterrupt breaks the loop,
\* any other exception is printed and the loop goes on.
loop_except(exc) == IF exc = "KeyboardInterrupt" THEN "exited" ELSE "prompt"

NoIO == [sub |-> "", cmd_name |-> "", alias |-> ""]

\* A dispatch that makes the handler objects anew every time.
commands_on_dispatchRebuilds(cmds, n) == [commands |-> Some(Registered), built |-> n + 1]

\* execute_command: if self.commands is None: self.commands = self._init_commands()
commands_on_dispatch(cmds, n) ==
    IF cmds = None
    THEN [commands |-> Some(Registered), built |-> n + 1]
    ELSE [commands |-> cmds, built |-> n]

\* One turn of the loop begins: the command is read, execute_command loads
\* the aliases and builds the registry on first use.
Typed(c) ==
    /\ pc = "prompt"
    /\ command' = c
    /\ commands' = commands_on_dispatch(commands, built).commands
    /\ built' = commands_on_dispatch(commands, built).built
    /\ sa = None
    /\ UNCHANGED observerVars

\* The handler returned res to the loop.
Returned(res) ==
    /\ result' = Some(res)
    /\ escaped' = "none"
    /\ IF res.should_exit
       THEN stop_requested' = stop_all_analyses /\ pc' = "exited"
       ELSE UNCHANGED stop_requested /\ pc' = "prompt"

\* Except clauses of which only the one for KeyboardInterrupt stops the
\* analyses.
RaisedOnlyPrints(exc) ==
    /\ escaped' = exc
    /\ stop_requested' = IF exc = "KeyboardInterrupt" THEN stop_all_analyses
                          ELSE stop_requested
    /\ pc' = loop_except(exc)

\* An exception reached the loop's except clauses.
Raised(exc) ==
    /\ escaped' = exc
    /\ stop_requested' = stop_all_analyses
    /\ pc' = loop_except(exc)

KeepAliases == aliases' = Some(AliasesLoaded) /\ UNCHANGED <<alias_file, added>>

UnknownCommand(c) ==
    /\ Typed(c)
    /\ dispatch(c).kind = "unknown"
    /\ Returned(UnknownResult(c))
    /\ KeepAliases
    /\ io' = NoIO
    /\ UNCHANGED <<portfolioVars, runnerVars>>

\* ClearScreenCommand, BannerCommand, InfoCommand, ExchangeStatusCommand
SimpleCommand(c) ==
    /\ Typed(c)
    /\ Handles(c, {"clear", "banner", "help", "info", "exchanges"})
    /\ Returned(CommandResult(TRUE, NoMessage, FALSE))
    /\ KeepAliases
    /\ io' = NoIO
    /\ UNCHANGED <<portfolioVars, runnerVars>>

\* ExitCommand
ExitCommand(c) ==
    /\ Typed(c)
    /\ Handles(c, {"exit"})
    /\ Returned(CommandResult(TRUE, Msg("exit", ""), TRUE))
    /\ KeepAliases
    /\ io' = NoIO
    /\ UNCHANGED <<portfolioVars, runnerVars>>

\* ListPortfoliosCommand, ListAvailableTickersCommand, AddCustomTickersCommand:
\* they read and write files the session keeps no copy of.
FileCommand(c, ok) ==
    /\ Typed(c)
    /\ Handles(c, {"list", "list_tickers", "add_tickers"})
    /\ dispatch(c).name = "list" => ok = (alpaca_file.state # "corrupt")
    /\ Returned(CommandResult(ok, IF ok THEN NoMessage ELSE Msg("Error", ""), FALSE))
    /\ KeepAliases
    /\ io' = NoIO
    /\ UNCHANGED <<portfolioVars, runnerVars>>

\* InitPortfolioCommand: execute passes config_folder= to _save_portfolio,
\* whose parameter is portfolio_folder; the TypeError is caught by execute
\* and alpaca.json is not touched.
InitCommand(c) ==
    /\ Typed(c)
    /\ Handles(c, {"init"})
    /\ Returned(CommandResult(FALSE, Msg("Failed to create portfolio", "TypeError"), FALSE))
    /\ KeepAliases
    /\ io' = NoIO
    /\ UNCHANGED <<portfolioVars, runnerVars>>

\* LoadPortfolioCommand
LoadCommand(c, name, how) ==
    /\ Typed(c)
    /\ Handles(c, {"load"})
    /\ IF portfolio_active(loaded_portfolio_name)
       THEN /\ Returned(AlreadyActive)
            /\ UNCHANGED <<loaded_portfolio_name, keys, alpaca_file>>
       ELSE LET r == load_portfolio(alpaca_file, name, how) IN
            /\ loaded_portfolio_name' = r.name
            /\ keys' = r.keys
            /\ alpaca_file' = r.file
            /\ Returned(r.result)
    /\ KeepAliases
    /\ io' = NoIO
    /\ UNCHANGED <<client, runnerVars>>

\* LoadLastPortfolioCommand; with no last_used it hands over to
\* execute_command("load_portfolio").
LoadLastCommand(c) ==
    /\ Typed(c)
    /\ Handles(c, {"load_last"})
    /\ dispatch("load_portfolio").kind = "unknown"
    /\ IF portfolio_active(loaded_portfolio_name)
       THEN /\ Returned(AlreadyActive)
            /\ UNCHANGED <<loaded_portfolio_name, keys>>
       ELSE IF alpaca_file.state # "json"
       THEN /\ Returned(CommandResult(FALSE,
                  IF alpaca_file.state = "corrupt"
                  THEN Msg("Config file is corrupted", "")
                  ELSE Msg("Failed to load last portfolio", "FileNotFoundError"), FALSE))
            /\ UNCHANGED <<loaded_portfolio_name, keys>>
       ELSE IF alpaca_file.last_used = None
       THEN /\ Returned(UnknownResult("load_portfolio"))
            /\ UNCHANGED <<loaded_portfolio_name, keys>>
       ELSE /\ loaded_portfolio_name' = alpaca_file.last_used
            /\ keys' = read_portfolio_keys(alpaca_file, The(alpaca_file.last_used))
            /\ Returned(CommandResult(TRUE,
                  Msg("Successfully loaded last portfolio", The(alpaca_file.last_used)), FALSE))
    /\ KeepAliases
    /\ io' = NoIO
    /\ UNCHANGED <<client, alpaca_file, runnerVars>>

\* UnloadPortfolioCommand
UnloadCommand(c) ==
    /\ Typed(c)
    /\ Handles(c, {"unload"})
    /\ loaded_portfolio_name' = None
    /\ keys' = None
    /\ client' = None
    /\ Returned(CommandResult(TRUE, Msg("Portfolio unloaded successfully.", ""), FALSE))
    /\ KeepAliases
    /\ io' = NoIO
    /\ UNCHANGED <<alpaca_file, runnerVars>>

\* PortfolioOverviewCommand, TradeAssetCommand, TradeCryptoCommand,
\* PortfolioPerformanceCommand: they talk to the broker, and only part of
\* their body is inside a try.  outcome is what the broker and the network
\* make of it.
ExternalOutcomes(name) ==
    IF name = "overview" THEN {"success", "raise", "no_internet"}
    ELSE {"success", "failure", "raise"}

\* An execute_command that turns the exception of a handler into a failure
\* result.
handler_raisedBecomesResult(exc) ==
    Returned(CommandResult(FALSE, Msg("Error", exc), FALSE))

\* execute_command: return self.commands[actual_command].execute(self), with
\* no try around it: what the handler raises leaves execute_command and no
\* result is assigned in the loop.
handler_raised(exc) == UNCHANGED result /\ Raised(exc)

ExternalCommand(c, outcome) ==
    /\ Typed(c)
    /\ Handles(c, {"overview", "trade_asset", "trade_crypto", "performance"})
    /\ outcome \in ExternalOutcomes(dispatch(c).name)
    /\ IF outcome = "no_internet"
       THEN \* require_internet returns None; result.should_exit raises in the loop
            /\ result' = None
            /\ Raised("AttributeError")
            /\ UNCHANGED client
       ELSE IF loaded_portfolio_name = None
       THEN /\ outcome = "failure" \/ dispatch(c).name = "overview"
            /\ Returned(CommandResult(FALSE, Msg("No portfolio loaded", ""), FALSE))
            /\ UNCHANGED client
       ELSE IF keys = None
       THEN \* context.keys["key"] on the empty dict
            /\ outcome = "raise"
            /\ handler_raised("Exception")
            /\ UNCHANGED client
       ELSE /\ client' = IF dispatch(c).name = "performance" THEN client
                         ELSE Some("TradingClient")
            /\ CASE outcome = "success" ->
                      Returned(CommandResult(TRUE, NoMessage, FALSE))
                 [] outcome = "failure" ->
                      Returned(CommandResult(FALSE, Msg("Error", ""), FALSE))
                 [] OTHER -> handler_raised("Exception")
    /\ KeepAliases
    /\ io' = NoIO
    /\ UNCHANGED <<loaded_portfolio_name, keys, alpaca_file, runnerVars>>

\* What the user answers to the prompts of the alias command.
CmdNameInputs == {"info", "zzz"}
AliasInputs == AliasKeys \cup {"zzz"}

AliasAnswers ==
    {[sub |-> sub, cmd_name |-> "", alias |-> ""] : sub \in {"help", "list"}}
      \cup {[sub |-> "remove", cmd_name |-> "", alias |-> a] : a \in AliasInputs}
      \cup {[sub |-> "set", cmd_name |-> n, alias |-> a] :
              n \in CmdNameInputs, a \in AliasInputs}

\* AliasCommand.execute
AliasCommand(c, answers, how) ==
    /\ Typed(c)
    /\ Handles(c, {"alias"})
    /\ is_valid_alias_subcommand(answers.sub, AliasSubcommands)
    /\ LET table == AliasesLoaded
           same == [table |-> table, file |-> alias_file]
           r == CASE answers.sub = "help" ->
                       same @@ [result |-> CommandResult(TRUE, NoMessage, FALSE)]
                  [] answers.sub = "list" ->
                       same @@ [result |-> list_aliases(get_aliases.value)]
                  [] answers.sub = "set" ->
                       set_alias(table, alias_file, answers.cmd_name, answers.alias, how)
                  [] OTHER ->
                       remove_alias_command(table, alias_file, answers.alias, how)
       IN  /\ aliases' = Some(r.table)
           /\ alias_file' = r.file
           /\ added' = CASE answers.sub = "set" /\ r.called ->
                             Some([alias |-> answers.alias, cmd |-> answers.cmd_name])
                         [] answers.sub = "remove" /\ r.result.success ->
                             {p \in added : p.alias # answers.alias}
                         [] OTHER -> added
           /\ Returned(r.result)
    /\ io' = answers
    /\ UNCHANGED <<portfolioVars, runnerVars>>

\* AnalysisCommand.execute up to its prompt.
AnalysisCommand(c) ==
    /\ Typed(c)
    /\ Handles(c, {"analysis"})
    /\ IF loaded_portfolio_name = None
       THEN Returned(CommandResult(FALSE, Msg("No portfolio loaded", ""), FALSE))
       ELSE /\ pc' = "analysis_input"
            /\ escaped' = "none"
            /\ UNCHANGED <<result, stop_requested>>
    /\ KeepAliases
    /\ io' = NoIO
    /\ UNCHANGED <<portfolioVars, runnerVars>>

\* The analysis prompt, for every line but the name of an analysis:
\* get_validated_input asks again on a line it rejects, and
\* AnalysisCommand.execute branches on the line it accepts.
AnalysisChoice(value) ==
    /\ pc = "analysis_input"
    /\ analysis_branch(value) # "start"
    /\ stop_typed' = IF value.form = "stop_id" /\ value.n \in RunnerIds /\ is_running(value.n)
                     THEN stop_typed \cup {value.n} ELSE stop_typed
    /\ IF ~accepted(value)
       THEN UNCHANGED <<pc, result, escaped, stop_requested>>
       ELSE LET branch == analysis_branch(value) IN
            CASE branch = "status" ->
                   Returned(CommandResult(TRUE, NoMessage, FALSE))
              [] branch = "stop" ->
                   /\ result' = Some(stop_analysis(split_repr(value)).result)
                   /\ stop_requested' = stop_analysis(split_repr(value)).stop
                   /\ escaped' = "none"
                   /\ pc' = "prompt"
              [] OTHER ->
                   Returned(CommandResult(FALSE, Msg("Unknown analysis.", ""), FALSE))
    /\ UNCHANGED <<commands, built, aliasVars, portfolioVars, analysis_runners,
                   running_analyses, runners, command, io, observerVars>>

\* AnalysisCommand._start_analysis on the name of a stoppable analysis:
\* a runner is made and started, and registered under its id in both
\* collections.
\* A _start_analysis that does not append the runner to the session's list.
start_analysisSkipsContext(value) ==
    /\ pc = "analysis_input"
    /\ accepted(value)
    /\ analysis_branch(value) = "start"
    /\ runners' = Append(runners, [NewRunner EXCEPT !.thread = "alive"])
    /\ running_analyses' = running_analyses \cup {Uuid(Len(runners) + 1)}
    /\ analysis_runners' = analysis_runners
    /\ Returned(CommandResult(TRUE, Msg("started with ID", "uuid"), FALSE))
    /\ UNCHANGED <<commands, built, aliasVars, portfolioVars, stop_typed, command, io,
                   observerVars>>

start_analysis(value) ==
    /\ pc = "analysis_input"
    /\ accepted(value)
    /\ analysis_branch(value) = "start"
    /\ runners' = Append(runners, [NewRunner EXCEPT !.thread = "alive"])
    /\ running_analyses' = running_analyses \cup {Uuid(Len(runners) + 1)}
    /\ analysis_runners' = Append(analysis_runners, Len(runners) + 1)
    /\ Returned(CommandResult(TRUE, Msg("started with ID", "uuid"), FALSE))
    /\ UNCHANGED <<commands, built, aliasVars, portfolioVars, stop_typed, command, io,
                   observerVars>>

\* The sessions of the model start at most MaxRunners analyses.
AnalysisStart(value) == Len(runners) < MaxRunners /\ start_analysis(value)

\* Ctrl-C at the loop's prompt or at the prompt of the analysis command:
\* KeyboardInterrupt reaches the loop's except clause.
Interrupt ==
    /\ pc \in {"prompt", "analysis_input"}
    /\ Raised("KeyboardInterrupt")
    /\ UNCHANGED <<commands, built, aliasVars, portfolioVars, runnerVars, command,
                   result, io, observerVars>>

(***************************************************************************)
(* The worker thread of a runner.                                          *)
(***************************************************************************)
\* A run that sleeps before it looks at the flag for the first time.
sample_runSleepsFirst(r, stop) ==
    IF r.i < Iterations
    THEN IF stop /\ r.i > 0
         THEN [r EXCEPT !.at = "returned", !.ret = Some("Stopped early.")]
         ELSE [r EXCEPT !.i = @ + 1]
    ELSE [r EXCEPT !.at = "returned", !.ret = Some("Completed successfully.")]

\* A run whose loop has no end: while True instead of range(100).
sample_runForever(r, stop) ==
    IF stop
    THEN [r EXCEPT !.at = "returned", !.ret = Some("Stopped early.")]
    ELSE [r EXCEPT !.i = IF @ < Iterations THEN @ + 1 ELSE @]

\* SampleAnalysis.run: one pass of the loop body, or the return after it.
sample_run(r, stop) ==
    IF r.i < Iterations
    THEN IF stop
         THEN [r EXCEPT !.at = "returned", !.ret = Some("Stopped early.")]
         ELSE [r EXCEPT !.i = @ + 1]
    ELSE [r EXCEPT !.at = "returned", !.ret = Some("Completed successfully.")]

Iterate(id) ==
    /\ runners[id].thread = "alive"
    /\ runners[id].at = "loop"
    /\ runners' = [runners EXCEPT ![id] = sample_run(@, stop_requested)]
    /\ UNCHANGED <<commands, built, aliasVars, portfolioVars, analysis_runners,
                   running_analyses, stop_requested, stop_typed, pc, command,
                   result, escaped, io, observerVars>>

\* AsyncAnalysisRunner._run: self.result = <what run() returned>
StoreResult(id) ==
    /\ runners[id].thread = "alive"
    /\ runners[id].at = "returned"
    /\ runners' = [runners EXCEPT ![id].result = runners[id].ret, ![id].at = "stored"]
    /\ UNCHANGED <<commands, built, aliasVars, portfolioVars, analysis_runners,
                   running_analyses, stop_requested, stop_typed, pc, command,
                   result, escaped, io, observerVars>>

\* _run has returned: the thread ends and is_alive() turns false.
ThreadExit(id) ==
    /\ runners[id].thread = "alive"
    /\ runners[id].at = "stored"
    /\ runners' = [runners EXCEPT ![id].thread = "dead"]
    /\ UNCHANGED <<commands, built, aliasVars, portfolioVars, analysis_runners,
                   running_analyses, stop_requested, stop_typed, pc, command,
                   result, escaped, io, observerVars>>

\* Analysis.run of an analysis whose body raises: the exception leaves run()
\* into the try of AsyncAnalysisRunner._run.
RunFails(id) ==
    /\ runners[id].thread = "alive"
    /\ runners[id].at = "loop"
    /\ runners' = [runners EXCEPT ![id].at = "raised"]
    /\ UNCHANGED <<commands, built, aliasVars, portfolioVars, analysis_runners,
                   running_analyses, stop_requested, stop_typed, pc, command,
                   result, escaped, io, observerVars>>

\* AsyncAnalysisRunner._run: except Exception as e: self.exception = e
StoreException(id) ==
    /\ runners[id].thread = "alive"
    /\ runners[id].at = "raised"
    /\ runners' = [runners EXCEPT ![id].exception = Some("Exception"), ![id].at = "stored"]
    /\ UNCHANGED <<commands, built, aliasVars, portfolioVars, analysis_runners,
                   running_analyses, stop_requested, stop_typed, pc, command,
                   result, escaped, io, observerVars>>

(***************************************************************************)
(* AsyncAnalysisRunner.start and stop, called directly on a runner from    *)
(* the main thread.                                                        *)
(***************************************************************************)
\* A start() that runs the thread of a finished runner once more.
runner_startRestarts(r) ==
    IF r.thread = "alive"
    THEN [raised |-> TRUE, runner |-> r]
    ELSE [raised |-> FALSE, runner |-> [r EXCEPT !.thread = "alive", !.at = "loop", !.i = 0]]

\* self.thread.start(): a thread can be started once; Thread.start raises
\* RuntimeError on a thread that was started before.
runner_start(r) ==
    IF r.thread = "initial"
    THEN [raised |-> FALSE, runner |-> [r EXCEPT !.thread = "alive"]]
    ELSE [raised |-> TRUE, runner |-> r]

RunnerStart(id) ==
    /\ pc = "prompt"
    /\ sa = None
    /\ gr = None
    /\ runners' = [runners EXCEPT ![id] = runner_start(@).runner]
    /\ api' = Some([op |-> "start", id |-> id, raised |-> runner_start(runners[id]).raised,
                    running |-> is_running(id)])
    /\ UNCHANGED <<commands, built, aliasVars, portfolioVars, analysis_runners,
                   running_analyses, stop_typed, stop_requested, pc, command,
                   result, escaped, io, gr, got, sa, stop_called, exit_code>>

\* A stop() that refuses a runner that is not running.
runner_stopRefusesIdle(id) ==
    IF is_running(id)
    THEN [raised |-> FALSE, flag |-> TRUE]
    ELSE [raised |-> TRUE, flag |-> stop_requested]

\* self.analysis.stop(): self._stop_requested = True, whatever the thread does.
runner_stop(id) == [raised |-> FALSE, flag |-> TRUE]

RunnerStop(id) ==
    /\ pc = "prompt"
    /\ sa = None
    /\ gr = None
    /\ stop_requested' = runner_stop(id).flag
    /\ stop_called' = stop_called \cup {id}
    /\ api' = Some([op |-> "stop", id |-> id, raised |-> runner_stop(id).raised,
                    running |-> is_running(id)])
    /\ UNCHANGED <<commands, built, aliasVars, portfolioVars, runnerVars, pc, command,
                   result, escaped, io, gr, got, sa, exit_code>>

(***************************************************************************)
(* AsyncAnalysisRunner.get_result, called from the main thread.            *)
(***************************************************************************)
\* A get_result that reads the result without looking at the thread.
get_result_skips_alive_check(id) == FALSE

\* if self.thread.is_alive(): return None
get_result_alive(id) == is_running(id)

GetResultCheck(id) ==
    /\ pc # "exited"
    /\ gr = None
    /\ IF get_result_alive(id)
       THEN got' = Some([id |-> id, raised |-> FALSE, value |-> None]) /\ UNCHANGED gr
       ELSE gr' = Some(id) /\ got' = None
    /\ UNCHANGED <<callVars, commands, built, aliasVars, portfolioVars, runnerVars, stop_requested,
                   pc, command, result, escaped, io>>

GetResultRead ==
    /\ gr # None
    /\ got' = Some([id |-> The(gr)] @@ result_slot(The(gr)))
    /\ gr' = None
    /\ UNCHANGED <<callVars, commands, built, aliasVars, portfolioVars, runnerVars, stop_requested,
                   pc, command, result, escaped, io>>

(***************************************************************************)
(* AnalysisCommand._stop_analysis, called with the id of a runner.  The    *)
(* prompt of the analysis command never hands it one (see split_repr), so  *)
(* the call is made directly, from the main thread between two commands.   *)
(***************************************************************************)
\* runner = self.running_analyses.get(analysis_id)
\* if not runner or not runner.is_running(): return CommandResult(False, ...)
StopAnalysisCheck(n) ==
    /\ pc = "prompt"
    /\ sa = None
    /\ gr = None
    /\ IF Uuid(n) \in running_analyses /\ is_running(n)
       THEN sa' = Some(n) /\ api' = None
       ELSE /\ api' = Some([op |-> "_stop_analysis", id |-> n,
                             result |-> stop_analysis(Uuid(n)).result,
                             running |-> FALSE])
            /\ UNCHANGED sa
    /\ UNCHANGED <<commands, built, aliasVars, portfolioVars, runnerVars, stop_requested,
                   pc, command, result, escaped, io, gr, got, stop_called, exit_code>>

\* runner.stop(); return CommandResult(True, "Stop signal sent ...")
StopAnalysisStop ==
    /\ sa # None
    /\ stop_requested' = TRUE
    /\ stop_called' = stop_called \cup sa
    /\ api' = Some([op |-> "_stop_analysis", id |-> The(sa),
                    result |-> CommandResult(TRUE, Msg("Stop signal sent", ""), FALSE),
                    running |-> is_running(The(sa))])
    /\ sa' = None
    /\ UNCHANGED <<commands, built, aliasVars, portfolioVars, runnerVars, pc, command,
                   result, escaped, io, gr, got, exit_code>>

(***************************************************************************)
(* The specifications.                                                     *)
(***************************************************************************)
\* configs/alpaca.json with one portfolio and no last_used entry.
DefaultConfig == [state |-> "json", portfolios |-> {"main"}, last_used |-> None]

\* CommandManager.__init__
Constructed ==
    /\ commands = None
    /\ built = 0
    /\ aliases = None
    /\ loaded_portfolio_name = None
    /\ keys = None
    /\ client = None
    /\ analysis_runners = <<>>
    /\ running_analyses = {}
    /\ runners = <<>>
    /\ stop_requested = FALSE
    /\ pc = "prompt"
    /\ command = ""
    /\ result = None
    /\ escaped = "none"
    /\ io = NoIO
    /\ added = None
    /\ stop_typed = {}
    /\ gr = None
    /\ got = None
    /\ sa = None
    /\ api = None
    /\ stop_called = {}
    /\ exit_code = None

\* A session on any alias file: alias commands and the commands the aliases
\* stand for; no portfolio is loaded and no analysis is started.
AliasSessionNames == {"alias", "info", "exit", "zzz"} \cup AliasKeys

Init ==
    /\ Constructed
    /\ alias_file \in AliasFiles
    /\ alpaca_file = DefaultConfig

\* A caller of manager.get_aliases() keeps the mapping it was handed.
GetAliases ==
    /\ pc = "prompt"
    /\ aliases' = Some(AliasesLoaded)
    /\ api' = Some([op |-> "get_aliases", obj |-> get_aliases.obj,
                    value |-> get_aliases.value, mutated |-> FALSE])
    /\ UNCHANGED <<commands, built, alias_file, added, portfolioVars, runnerVars,
                   stop_requested, pc, command, result, escaped, io, gr, got, sa,
                   stop_called, exit_code>>

\* What one statement of the caller makes of a mapping m: m[a] = c, m.clear().
Mutations(m) ==
    {WithEntry(m, a, c) : a \in AliasKeys, c \in AliasTargets} \cup {EmptyDict}

\* The caller changes the mapping it holds.  A mapping that is the manager's
\* own dict changes the manager's table.
MutateReturned(value) ==
    /\ pc = "prompt"
    /\ api # None
    /\ The(api).op = "get_aliases"
    /\ ~The(api).mutated
    /\ value \in Mutations(The(api).value)
    /\ value # The(api).value
    /\ api' = Some([The(api) EXCEPT !.value = value, !.mutated = TRUE])
    /\ aliases' = IF The(api).obj = "self.aliases" THEN Some(value) ELSE aliases
    /\ UNCHANGED <<commands, built, alias_file, added, portfolioVars, runnerVars,
                   stop_requested, pc, command, result, escaped, io, gr, got, sa,
                   stop_called, exit_code>>

\* The mappings a caller can hold.
CallerTables == UNION {[D -> AliasTargets] : D \in SUBSET AliasKeys}

Next ==
    \/ \E c \in AliasSessionNames : UnknownCommand(c)
    \/ \E c \in AliasSessionNames : SimpleCommand(c)
    \/ \E c \in AliasSessionNames : ExitCommand(c)
    \/ \E c \in AliasSessionNames, answers \in AliasAnswers, how \in SaveOutcomes :
          AliasCommand(c, answers, how)
    \/ Interrupt

Spec == Init /\ [][Next]_vars

\* A session in which a caller of get_aliases keeps and changes the mapping
\* it was handed, between turns that list, remove and use aliases.
NextAliasApi ==
    \/ GetAliases
    \/ \E value \in CallerTables : MutateReturned(value)
    \/ \E c \in AliasSessionNames : SimpleCommand(c)
    \/ \E c \in AliasSessionNames, answers \in AliasAnswers, how \in SaveOutcomes :
          answers.sub \in {"list", "remove"} /\ AliasCommand(c, answers, how)

SpecAliasApi == Init /\ [][NextAliasApi]_vars

\* A session without aliases on the portfolio commands and the commands that
\* need a portfolio; no analysis is started.
PortfolioSessionNames ==
    {"init", "load", "unload", "load_last", "list", "overview", "trade_asset",
     "performance", "analysis", "exit", "zzz"}

Configs ==
    {[state |-> "absent", portfolios |-> {}, last_used |-> None],
     [state |-> "corrupt", portfolios |-> {}, last_used |-> None],
     DefaultConfig,
     [state |-> "json", portfolios |-> {"main"}, last_used |-> Some("main")],
     [state |-> "json", portfolios |-> {"main"}, last_used |-> Some("ghost")]}

InitPortfolio ==
    /\ Constructed
    /\ alias_file = [state |-> "absent", table |-> EmptyDict]
    /\ alpaca_file \in Configs

NextPortfolio ==
    \/ \E c \in PortfolioSessionNames : UnknownCommand(c)
    \/ \E c \in PortfolioSessionNames : ExitCommand(c)
    \/ \E c \in PortfolioSessionNames, ok \in BOOLEAN : FileCommand(c, ok)
    \/ \E c \in PortfolioSessionNames : InitCommand(c)
    \/ \E c \in PortfolioSessionNames, name \in PortfolioNames, how \in ConfigWrites :
          LoadCommand(c, name, how)
    \/ \E c \in PortfolioSessionNames : LoadLastCommand(c)
    \/ \E c \in PortfolioSessionNames : UnloadCommand(c)
    \/ \E c \in PortfolioSessionNames,
          outcome \in {"success", "failure", "raise", "no_internet"} :
          ExternalCommand(c, outcome)
    \/ \E c \in PortfolioSessionNames : AnalysisCommand(c)
    \/ \E value \in AnalysisInputs : AnalysisChoice(value)
    \/ Interrupt

SpecPortfolio == InitPortfolio /\ [][NextPortfolio]_vars

\* A session without aliases in which analyses are started and the user asks
\* the analysis command to stop them.
InitAnalysis ==
    /\ Constructed
    /\ alias_file = [state |-> "absent", table |-> EmptyDict]
    /\ alpaca_file = DefaultConfig

NextAnalysis ==
    \/ ExitCommand("exit")
    \/ LoadCommand("load", "main", "ok")
    \/ AnalysisCommand("analysis")
    \/ \E value \in AnalysisInputs : AnalysisChoice(value)
    \/ \E value \in AnalysisInputs : AnalysisStart(value)
    \/ \E id \in RunnerIds : Iterate(id)
    \/ \E id \in RunnerIds : StoreResult(id)
    \/ \E id \in RunnerIds : ThreadExit(id)
    \/ Interrupt

SpecAnalysis == InitAnalysis /\ [][NextAnalysis]_vars

\* The same session with the runners observed through get_result instead; an
\* overview that raises makes the loop stop the running analyses.  get_result
\* changes nothing of the runners, so one call per session, at any moment,
\* shows every value it can hand out.
NextRunner ==
    \/ LoadCommand("load", "main", "ok")
    \/ AnalysisCommand("analysis")
    \/ ExternalCommand("overview", "raise")
    \/ \E value \in AnalysisInputs : AnalysisStart(value)
    \/ \E id \in RunnerIds : Iterate(id)
    \/ \E id \in RunnerIds : StoreResult(id)
    \/ \E id \in RunnerIds : ThreadExit(id)
    \/ \E id \in RunnerIds : got = None /\ GetResultCheck(id)
    \/ GetResultRead

SpecRunner == InitAnalysis /\ [][NextRunner]_vars

\* A session on any alias file with alias commands, portfolio loads and
\* analyses that are started and asked to stop; the workers are not scheduled.
RegistrySessionNames == {"alias", "b", "exit", "load", "analysis", "zzz"}

NextRegistry ==
    \/ \E c \in RegistrySessionNames : UnknownCommand(c)
    \/ \E c \in RegistrySessionNames : SimpleCommand(c)
    \/ \E c \in RegistrySessionNames : ExitCommand(c)
    \/ \E c \in RegistrySessionNames, answers \in AliasAnswers :
          AliasCommand(c, answers, "ok")
    \/ \E c \in RegistrySessionNames : LoadCommand(c, "main", "ok")
    \/ \E c \in RegistrySessionNames : AnalysisCommand(c)
    \/ \E value \in AnalysisInputs : AnalysisChoice(value)
    \/ \E value \in AnalysisInputs : AnalysisStart(value)
    \/ Interrupt

SpecRegistry == Init /\ [][NextRegistry]_vars

\* get_validated_input is called with a list of validators and extra
\* arguments.
ValidatorLists ==
    {<<>>, <<"is_non_empty_string">>, <<"is_valid_analysis_subcommand">>,
     <<"is_non_empty_string", "is_valid_analysis_subcommand">>,
     <<"is_valid_analysis_subcommand", "is_non_empty_string">>}

ExtraArgs == {<<>>, <<valid_analysis_subcommands>>}

GetValidatedInputCall(validators, args) ==
    /\ pc = "prompt"
    /\ api = None
    /\ api' = Some([op |-> "get_validated_input", validators |-> validators,
                    args |-> args, read |-> <<>>, returned |-> None, raised |-> FALSE])
    /\ UNCHANGED <<commands, built, aliasVars, portfolioVars, runnerVars, stop_requested,
                   pc, command, result, escaped, io, gr, got, sa, stop_called, exit_code>>

\* One turn of "while True": value = input(prompt), the test, and the return
\* or the print of "Invalid input. Please try again.".
GetValidatedInputRead(value) ==
    /\ api # None
    /\ The(api).op = "get_validated_input"
    /\ The(api).returned = None /\ ~The(api).raised
    /\ Len(The(api).read) < MaxPrompts
    /\ LET a == The(api)
           r == validate(a.validators, value, a.args)
       IN  api' = Some([a EXCEPT !.read = Append(@, value),
                                 !.returned = IF r = "True" THEN Some(value) ELSE None,
                                 !.raised = (r = "TypeError")])
    /\ UNCHANGED <<commands, built, aliasVars, portfolioVars, runnerVars, stop_requested,
                   pc, command, result, escaped, io, gr, got, sa, stop_called, exit_code>>

NextInput ==
    \/ \E validators \in ValidatorLists, args \in ExtraArgs :
          GetValidatedInputCall(validators, args)
    \/ \E value \in AnalysisInputs : GetValidatedInputRead(value)

SpecInput == InitAnalysis /\ [][NextInput]_vars

\* A session that starts its analyses one after the other, each when the
\* ones before have finished, and in which runners are stopped by an overview
\* that raises, by exit or by _stop_analysis.
NextOneByOne ==
    \/ loaded_portfolio_name = None /\ LoadCommand("load", "main", "ok")
    \/ Len(runners) < MaxShared /\ AnalysisCommand("analysis")
    \/ \E value \in AnalysisInputs :
          /\ Len(runners) < MaxShared
          /\ \A id \in RunnerIds : runners[id].thread = "dead"
          /\ start_analysis(value)
    \/ \E outcome \in {"success", "raise", "no_internet"} :
          ExternalCommand("overview", outcome)
    \/ ExitCommand("exit")
    \/ \E id \in RunnerIds : Iterate(id)
    \/ \E id \in RunnerIds : StoreResult(id)
    \/ \E id \in RunnerIds : ThreadExit(id)
    \/ \E n \in 1..MaxShared : StopAnalysisCheck(n)
    \/ StopAnalysisStop

SpecOneByOne == InitAnalysis /\ [][NextOneByOne]_vars

\* A session in which analyses are started and the loop is ended by exit or
\* Ctrl-C, with worker threads that the scheduler does not starve: a thread
\* that can take a step takes one in the end.
WorkerStep(id) ==
    /\ id \in RunnerIds
    /\ Iterate(id) \/ StoreResult(id) \/ ThreadExit(id)

NextFair ==
    \/ ExitCommand("exit")
    \/ loaded_portfolio_name = None /\ LoadCommand("load", "main", "ok")
    \/ Len(runners) < MaxRunners /\ AnalysisCommand("analysis")
    \/ \E value \in AnalysisInputs : AnalysisStart(value)
    \/ \E id \in 1..MaxRunners : WorkerStep(id)
    \/ Interrupt

SpecFair ==
    /\ InitAnalysis
    /\ [][NextFair]_vars
    /\ \A id \in 1..MaxRunners : WF_vars(WorkerStep(id))

(***************************************************************************)
(* main: the manager is made, the banner printed and the connection        *)
(* checked inside one try; then the command loop runs.                     *)
(***************************************************************************)
StartOutcomes == {"online", "offline", "interrupt", "error"}

\* main, up to the call of run_command_loop.
MainStart(outcome) ==
    /\ pc = "main"
    /\ CASE outcome = "online" ->
               pc' = "prompt" /\ UNCHANGED <<exit_code, escaped>>
         [] outcome = "offline" ->
               \* if not check_internet_connection(verbose=False): return 1
               pc' = "returned" /\ exit_code' = Some(1) /\ UNCHANGED escaped
         [] outcome = "interrupt" ->
               \* except KeyboardInterrupt: return 130
               pc' = "returned" /\ exit_code' = Some(130) /\ escaped' = "KeyboardInterrupt"
         [] OTHER ->
               \* except Exception: return 1
               pc' = "returned" /\ exit_code' = Some(1) /\ escaped' = "Exception"
    /\ UNCHANGED <<commands, built, aliasVars, portfolioVars, runnerVars, stop_requested,
                   command, result, io, gr, got, sa, api, stop_called>>

\* manager.run_command_loop() has returned: return 0
MainReturn ==
    /\ pc = "exited"
    /\ exit_code = None
    /\ exit_code' = Some(0)
    /\ UNCHANGED <<commands, built, aliasVars, portfolioVars, runnerVars, stop_requested,
                   pc, command, result, escaped, io, gr, got, sa, api, stop_called>>

\* The whole program, from the call of main.
MainSessionNames == {"exit", "info", "load", "unload", "overview", "performance", "zzz"}

InitMain ==
    /\ commands = None
    /\ built = 0
    /\ aliases = None
    /\ alias_file = [state |-> "absent", table |-> EmptyDict]
    /\ alpaca_file = DefaultConfig
    /\ loaded_portfolio_name = None
    /\ keys = None
    /\ client = None
    /\ analysis_runners = <<>>
    /\ running_analyses = {}
    /\ runners = <<>>
    /\ stop_requested = FALSE
    /\ pc = "main"
    /\ command = ""
    /\ result = None
    /\ escaped = "none"
    /\ io = NoIO
    /\ added = None
    /\ stop_typed = {}
    /\ gr = None
    /\ got = None
    /\ sa = None
    /\ api = None
    /\ stop_called = {}
    /\ exit_code = None

NextMain ==
    \/ \E outcome \in StartOutcomes : MainStart(outcome)
    \/ \E c \in MainSessionNames : UnknownCommand(c)
    \/ \E c \in MainSessionNames : SimpleCommand(c)
    \/ \E c \in MainSessionNames : ExitCommand(c)
    \/ \E c \in MainSessionNames, name \in PortfolioNames : LoadCommand(c, name, "ok")
    \/ \E c \in MainSessionNames : UnloadCommand(c)
    \/ \E c \in MainSessionNames, outcome \in {"success", "failure", "raise", "no_internet"} :
          ExternalCommand(c, outcome)
    \/ Interrupt
    \/ MainReturn

SpecMain == InitMain /\ [][NextMain]_vars

\* A runner made around an analysis by a caller of its own, who starts it,
\* stops it and asks for its result in any order.
InitUnit ==
    /\ commands = None
    /\ built = 0
    /\ aliases = None
    /\ alias_file = [state |-> "absent", table |-> EmptyDict]
    /\ alpaca_file = DefaultConfig
    /\ loaded_portfolio_name = None
    /\ keys = None
    /\ client = None
    /\ analysis_runners = <<>>
    /\ running_analyses = {}
    /\ runners = <<NewRunner>>
    /\ stop_requested = FALSE
    /\ pc = "prompt"
    /\ command = ""
    /\ result = None
    /\ escaped = "none"
    /\ io = NoIO
    /\ added = None
    /\ stop_typed = {}
    /\ gr = None
    /\ got = None
    /\ sa = None
    /\ api = None
    /\ stop_called = {}
    /\ exit_code = None

NextUnit ==
    \/ \E id \in RunnerIds : RunnerStart(id)
    \/ \E id \in RunnerIds : RunnerStop(id)
    \/ \E id \in RunnerIds : Iterate(id)
    \/ \E id \in RunnerIds : RunFails(id)
    \/ \E id \in RunnerIds : StoreResult(id)
    \/ \E id \in RunnerIds : StoreException(id)
    \/ \E id \in RunnerIds : ThreadExit(id)
    \/ \E id \in RunnerIds : GetResultCheck(id)
    \/ GetResultRead

SpecUnit == InitUnit /\ [][NextUnit]_vars

\* A session that starts analyses side by side and stops one of them by
\* its id.
NextShared ==
    \/ loaded_portfolio_name = None /\ LoadCommand("load", "main", "ok")
    \/ Len(runners) < MaxShared /\ AnalysisCommand("analysis")
    \/ \E value \in AnalysisInputs : Len(runners) < MaxShared /\ start_analysis(value)
    \/ \E id \in RunnerIds : Iterate(id)
    \/ \E id \in RunnerIds : StoreResult(id)
    \/ \E id \in RunnerIds : ThreadExit(id)
    \/ \E n \in 1..MaxShared : StopAnalysisCheck(n)
    \/ StopAnalysisStop

SpecShared == InitAnalysis /\ [][NextShared]_vars

(***************************************************************************)
(* Properties of the alias commands, checked under Spec.                   *)
(***************************************************************************)
\* A turn of the loop in which the alias command ran subcommand sub.
AliasTurn(sub) == pc = "prompt" /\ pc' = "prompt" /\ io'.sub = sub

\* The alias file holding exactly this table.
Persisted(table) == [state |-> "json", table |-> table]

\* C1: alias set of a registered command name c under an alias a that is
\* neither a registered name nor an existing alias returns success, leaves the
\* table as the previous table plus a -> c, and leaves the alias file holding
\* that table.
C1_SetStoresAndPersists ==
    [][(/\ AliasTurn("set")
        /\ io'.cmd_name \in Registered
        /\ io'.alias \notin Registered
        /\ io'.alias \notin DOMAIN AliasesLoaded)
       => /\ The(result').success
          /\ aliases' = Some(WithEntry(AliasesLoaded, io'.alias, io'.cmd_name))
          /\ alias_file' = Persisted(The(aliases'))]_vars

\* C2: an alias a that alias set accepted for the command c (and that was not
\* removed since) dispatches exactly as c does.
C2_AcceptedAliasDispatchesAsCommand ==
    \A p \in added : dispatch(p.alias) = dispatch(p.cmd)

\* C3: alias set fails and changes neither the table nor the alias file when
\* the command name is not registered (reported as such), or when the alias
\* is a registered name or an existing alias (reported as a conflict).
C3_RejectedSetChangesNothing ==
    [][(/\ AliasTurn("set")
        /\ \/ io'.cmd_name \notin Registered
           \/ io'.alias \in Registered
           \/ io'.alias \in DOMAIN AliasesLoaded)
       => /\ ~The(result').success
          /\ The(result').message[1] =
                IF io'.cmd_name \notin Registered
                THEN "Command does not exist"
                ELSE "Alias already exists or conflicts"
          /\ aliases' = Some(AliasesLoaded)
          /\ alias_file' = alias_file]_vars

C3_Witness ==
    /\ io.sub = "set"
    /\ io.cmd_name \in Registered
    /\ aliases # None
    /\ io.alias \in DOMAIN The(aliases)
    /\ result # None
    /\ ~The(result).success
    /\ The(result).message[1] = "Alias already exists or conflicts"

\* C4: alias remove of a name that is no key of the table, the empty table
\* included, fails and changes neither the table nor the alias file.
C4_RemoveOfAbsentChangesNothing ==
    [][(AliasTurn("remove") /\ io'.alias \notin DOMAIN AliasesLoaded)
       => /\ ~The(result').success
          /\ aliases' = Some(AliasesLoaded)
          /\ alias_file' = alias_file]_vars

C4_Witness ==
    /\ io.sub = "remove"
    /\ aliases # None
    /\ The(aliases) # EmptyDict
    /\ result = Some(CommandResult(FALSE, Msg("Alias does not exist", io.alias), FALSE))
    /\ alias_file = Persisted(The(aliases))

\* C5 as stated: alias remove of an existing alias a returns success, deletes
\* exactly the entry of a, leaves the registry as it is, and the alias file
\* holds the resulting table.
C5_RemoveDeletesAndPersists ==
    [][(AliasTurn("remove") /\ io'.alias \in DOMAIN AliasesLoaded)
       => /\ The(result').success
          /\ aliases' = Some(Without(AliasesLoaded, io'.alias))
          /\ commands' = Some(Registered)
          /\ alias_file' = Persisted(The(aliases'))]_vars

\* C5 amended: alias remove of an existing alias a returns success, deletes
\* exactly the entry of a and leaves the registry as it is; the alias file
\* holds the resulting table unless writing it failed, and then it is left as
\* it was or left truncated.
C5_RemoveDeletesAndTriesToPersist ==
    [][(AliasTurn("remove") /\ io'.alias \in DOMAIN AliasesLoaded)
       => /\ The(result').success
          /\ aliases' = Some(Without(AliasesLoaded, io'.alias))
          /\ commands' = Some(Registered)
          /\ commands \in {None, Some(Registered)}
          /\ alias_file' \in {Persisted(The(aliases')), alias_file,
                              [state |-> "corrupt", table |-> EmptyDict]}]_vars

C5_Witness ==
    /\ io.sub = "remove"
    /\ result = Some(CommandResult(TRUE, Msg("Alias removed", io.alias), FALSE))
    /\ aliases # None
    /\ The(aliases) # EmptyDict
    /\ io.alias \notin DOMAIN The(aliases)
    /\ alias_file = Persisted(The(aliases))

\* C6: a typed name that is neither a registered command nor an alias gets a
\* failure result whose message says "Unknown command", nothing is raised, and
\* nothing of the session changes but the registry being built and the alias
\* table being loaded.
C6_UnknownNameFailsAndChangesNothing ==
    [][(/\ pc = "prompt"
        /\ pc' = "prompt"
        /\ command' \notin Registered
        /\ command' \notin DOMAIN AliasesLoaded)
       => /\ result' = Some(CommandResult(FALSE, Msg("Unknown command", command'), FALSE))
          /\ escaped' = "none"
          /\ commands' = Some(Registered)
          /\ aliases' = Some(AliasesLoaded)
          /\ UNCHANGED <<alias_file, added, portfolioVars, runnerVars,
                         stop_requested, observerVars>>]_vars

C6_Witness ==
    /\ command = "zzz"
    /\ aliases # None
    /\ The(aliases) # EmptyDict
    /\ result = Some(UnknownResult("zzz"))
    /\ escaped = "none"

BodyFinished(id) == runners[id].at \in {"returned", "raised", "stored"}

\* C8: from start() on, is_running() is true as long as the body of the
\* analysis has neither returned nor raised; it is false only after that,
\* whether the body ran to completion or saw the stop flag.
C8_RunningUntilBodyFinished ==
    \A id \in RunnerIds : ~BodyFinished(id) => is_running(id)

C8_Witness ==
    \E id \in RunnerIds : stop_requested /\ ~BodyFinished(id) /\ is_running(id)

\* C9: get_result() hands out a value only after the worker has finished:
\* the thread is no longer alive and the value is the one the body returned.
C9_ResultOnlyAfterFinish ==
    /\ \A id \in gr : runners[id].thread = "dead"
    /\ \A g \in got : g.value # None =>
          /\ runners[g.id].thread = "dead"
          /\ ~g.raised
          /\ g.value = runners[g.id].ret

C9_Witness == \E g \in got : g.value = Some("Stopped early.")

\* C10: a runner the user asked the analysis command to stop while it ran
\* ends with the "Stopped early." outcome.
C10_StoppedRunnerEndsStoppedEarly ==
    \A id \in stop_typed :
        runners[id].thread = "dead" => runners[id].result = Some("Stopped early.")

\* C11: with several runners running at once, stopping the runner X signals
\* X only: a runner whose stop() was never called ends with the
\* "Completed successfully." outcome.
C11_StopSignalsOnlyItsRunner ==
    \A id \in RunnerIds :
        (id \notin stop_called /\ runners[id].thread = "dead")
            => runners[id].result = Some("Completed successfully.")

(***************************************************************************)
(* Properties of the methods of a runner, checked under SpecUnit.          *)
(***************************************************************************)
\* A step that is the call of stop() on a runner.
StopCall == api' # api /\ api' # None /\ The(api').op = "stop"

\* C12: stop() can be called in every state of the runner (whenever the main
\* thread is not inside another call), raises nothing
\* and returns without the runner having moved: what ran before the call
\* still runs after it.
C12_StopReturnsAtOnce ==
    [][/\ \A id \in RunnerIds : (gr = None /\ sa = None) => ENABLED RunnerStop(id)
       /\ StopCall => /\ ~The(api').raised
                      /\ runners' = runners]_vars

C12_Witness ==
    \E a \in api :
        /\ a.op = "stop"
        /\ ~a.raised
        /\ runners[a.id].thread = "dead"
        /\ runners[a.id].exception # None

\* A step in which get_result, having found the thread finished, returns.
GetResultReturns == gr # None /\ gr' = None

\* C13: a runner never holds both an output and a failure; every get_result
\* on a finished runner raises the failure the body raised, or else returns
\* the output the body returned, and leaves both in place for the next call.
C13_FinishedRunnerReplaysOutcome ==
    [][/\ \A id \in RunnerIds :
            runners'[id].result = None \/ runners'[id].exception = None
       /\ (GetResultReturns /\ runners[The(gr)].thread = "dead") =>
            LET r == runners[The(gr)] IN
            /\ got' = Some([id |-> The(gr),
                            raised |-> r.ret = None,
                            value |-> IF r.ret = None THEN Some("Exception") ELSE r.ret])
            /\ runners' = runners]_vars

C13_Witness ==
    \E g \in got : g.raised /\ g.value = runners[g.id].exception

(***************************************************************************)
(* Properties of the end of the session.                                   *)
(***************************************************************************)
\* C14: when the loop ends, on a result with should_exit or on Ctrl-C, it
\* has called stop() on every runner that was running, it has not waited
\* for any of them, and it reads no command afterwards.
C14_ExitStopsRunnersAndEnds ==
    [][/\ (pc # "exited" /\ pc' = "exited") =>
            /\ stop_requested' =
                  (stop_requested \/ \E n \in 1..Len(analysis_runners) :
                                        runners[analysis_runners[n]].thread = "alive")
            /\ runners' = runners
       /\ pc = "exited" => (pc' = "exited" /\ command' = command /\ result' = result)]_vars

C14_Witness ==
    /\ pc = "exited"
    /\ escaped = "KeyboardInterrupt"
    /\ stop_requested
    /\ \E id \in RunnerIds : is_running(id) /\ ~BodyFinished(id)

\* C15: a failure other than Ctrl-C that reaches the loop ends the loop: no
\* further command is read after it.
C15_LoopFailureEndsLoop ==
    escaped \in {"Exception", "AttributeError"} => pc = "exited"

\* C16: the exit code of main tells how the session ended: 130 when Ctrl-C
\* ended it, 0 when the exit command ended the loop, 1 when the start-up
\* failed or found no connection.
C16_ExitCodeTellsHowSessionEnded ==
    \A code \in exit_code :
        code = CASE escaped = "KeyboardInterrupt" -> 130
                 [] result # None /\ The(result).should_exit -> 0
                 [] OTHER -> 1

\* The caller of get_aliases changes the mapping it was handed.
CallerMutates ==
    /\ api # None /\ api' # None
    /\ The(api).op = "get_aliases" /\ ~The(api).mutated
    /\ The(api').op = "get_aliases" /\ The(api').mutated

\* C17: alias list returns success, for an empty and a non-empty table, and
\* changes neither the table nor the file nor the session; a change made to
\* the mapping get_aliases returned changes neither the table nor the file
\* nor what any name dispatches to.
C17_ListChangesNothingAndHandsOutCopy ==
    [][/\ AliasTurn("list") =>
            /\ The(result').success
            /\ AliasesLoaded' = AliasesLoaded
            /\ alias_file' = alias_file
            /\ UNCHANGED <<portfolioVars, runnerVars, stop_requested, added>>
       /\ CallerMutates =>
            /\ AliasesLoaded' = AliasesLoaded
            /\ alias_file' = alias_file
            /\ \A c \in AliasSessionNames : dispatch(c)' = dispatch(c)]_vars

\* alias list has shown a non-empty table while a caller holds a changed copy
\* of it.
C17_Witness ==
    /\ io.sub = "list" /\ pc = "prompt" /\ result # None /\ The(result).success
    /\ AliasesLoaded # EmptyDict
    /\ \E a \in api : a.op = "get_aliases" /\ a.mutated /\ a.value # AliasesLoaded

\* C18: a runner's thread only moves from created to running to finished;
\* a finished runner never changes again, whatever is called on it; its
\* result and exception slots are written by the running worker only, and a
\* slot that holds a value keeps it.
C18_FinishedRunnerIsFinal ==
    [][\A id \in RunnerIds :
        LET r == runners[id]
            q == runners'[id]
        IN  /\ r.thread = "dead" => q = r
            /\ q.thread # r.thread =>
                  <<r.thread, q.thread>> \in {<<"initial", "alive">>, <<"alive", "dead">>}
            /\ (q.result # r.result \/ q.exception # r.exception) =>
                  /\ r.thread = "alive"
                  /\ r.result = None /\ r.exception = None]_vars

\* A finished runner has been stopped, asked for its result and started again.
C18_Witness ==
    \E id \in RunnerIds :
        /\ runners[id].thread = "dead"
        /\ id \in stop_called
        /\ \E g \in got : g.id = id
        /\ \E a \in api : a.op = "start" /\ a.id = id /\ a.raised /\ ~a.running

\* C19: stop() on a runner that is not running, not yet started or already
\* finished, leaves the cancellation flag and the runner as they were.
C19_StopOfIdleRunnerChangesNothing ==
    [][(StopCall /\ ~The(api').running) =>
          /\ stop_requested' = stop_requested
          /\ runners' = runners]_vars

\* C20: _stop_analysis on an id that is not registered or whose runner has
\* finished returns a failure and leaves the cancellation flag as it was;
\* when it reports success, the runner is running at the moment the flag is
\* set.
C20_StopSignalsOnlyRunningRunner ==
    [][(api' # api /\ api' # None /\ The(api').op = "_stop_analysis") =>
          IF The(api').result.success
          THEN The(api').running
          ELSE stop_requested' = stop_requested]_vars

\* A turn of the alias command that calls add_alias or remove_alias.
AliasMutation == AliasTurn("set") \/ AliasTurn("remove")

\* C21 as stated: after every add or remove that returned, the alias file
\* holds the table in memory.
C21_FileEqualsTableAfterMutation ==
    [][(AliasMutation /\ The(result').success) =>
          alias_file' = Persisted(The(aliases'))]_vars

\* C21 amended: the table is read from the file once, on first use, and is
\* changed afterwards by add and remove only; the file is written by add and
\* remove only, and a write that completes leaves the file holding the whole
\* table in memory, while a write that fails leaves the file as it was or
\* truncated, behind the table.
C21_LoadedOnceAndWrittenWhole ==
    [][/\ aliases # None =>
            /\ aliases' # None
            /\ aliases' # aliases => AliasMutation
       /\ (aliases = None /\ aliases' # None /\ ~AliasMutation) =>
            aliases' = Some(IF alias_file.state = "json"
                            THEN alias_file.table ELSE EmptyDict)
       /\ alias_file' # alias_file =>
            /\ AliasMutation
            /\ alias_file' \in {Persisted(The(aliases')),
                                [state |-> "corrupt", table |-> EmptyDict]}]_vars

\* A remove whose write was cut short: the table in memory still holds an
\* entry that the file no longer yields.
C21_Witness ==
    /\ io.sub = "remove"
    /\ result = Some(CommandResult(TRUE, Msg("Alias removed", io.alias), FALSE))
    /\ aliases # None
    /\ The(aliases) # EmptyDict
    /\ alias_file.state = "corrupt"

\* C22: the registry is made once, on the first dispatch, and never again:
\* from then on the registered names and the handler objects bound to them
\* stay the same, whatever is dispatched.
C22_RegistryBuiltOnce ==
    [][/\ commands # None => (commands' = commands /\ built' = built)
       /\ commands = None => built = 0
       /\ commands' # None => (commands' = Some(Registered) /\ built' = 1)
       /\ (pc = "prompt" /\ command' # command) => commands' # None]_vars

\* An alias was removed and an analysis was started in a session whose
\* registry was made before.
C22_Witness ==
    /\ commands = Some(Registered)
    /\ Len(runners) > 0
    /\ aliases # None
    /\ alias_file.state = "json"
    /\ The(aliases) # alias_file.table \/ added # None

\* The runners in the session's list.
Listed(list) == {list[n] : n \in 1..Len(list)}

\* C23: every runner ever started stays registered: it is found under its own
\* id in running_analyses and once in the session's analysis_runners, the two
\* hold the same runners, and neither ever loses one.
C23_RunnersNeverPruned ==
    [][/\ Listed(analysis_runners') = DOMAIN runners'
       /\ Len(analysis_runners') = Len(runners')
       /\ running_analyses' = {Uuid(id) : id \in DOMAIN runners'}
       /\ running_analyses \subseteq running_analyses'
       /\ SubSeq(analysis_runners', 1, Len(analysis_runners)) = analysis_runners
       /\ \A id \in DOMAIN runners : id \in DOMAIN runners']_vars

\* A runner that finished is still registered after the loop has ended.
C23_Witness ==
    /\ pc = "exited"
    /\ \E id \in RunnerIds :
          /\ runners[id].thread = "dead"
          /\ Uuid(id) \in running_analyses
          /\ id \in Listed(analysis_runners)

\* Every validator of the call accepts the line, each given the arguments it
\* takes.
EveryValidatorAccepts(a, value) ==
    \A n \in 1..Len(a.validators) :
        IF a.validators[n] = "is_non_empty_string"
        THEN value.form # ""
        ELSE Len(a.args) = 1 /\ value \in a.args[1]

\* C24: get_validated_input returns a line only if every validator accepts
\* it, the validators with a second parameter being given the extra
\* arguments; it returns the first such line it reads, and every line read
\* before was refused and followed by another prompt.
C24_ReturnsFirstValidInput ==
    \A a \in api : a.op = "get_validated_input" =>
        /\ \A v \in a.returned :
              /\ EveryValidatorAccepts(a, v)
              /\ a.read # <<>> /\ v = a.read[Len(a.read)]
        /\ \A n \in 1..Len(a.read) :
              /\ n < Len(a.read) => ~EveryValidatorAccepts(a, a.read[n])
              /\ (n = Len(a.read) /\ EveryValidatorAccepts(a, a.read[n])) =>
                    a.returned = Some(a.read[n])

\* A call with both validators refused a line and returned the next.
C24_Witness ==
    \E a \in api :
        /\ a.op = "get_validated_input"
        /\ Len(a.validators) = 2
        /\ Len(a.read) > 1
        /\ a.returned # None

\* C25: the cancellation flag of the analysis is never reset; every stop()
\* leaves it set; and a runner of that analysis that looks at the flag while
\* it is set returns "Stopped early." at that check (after the last of the
\* 100 passes there is no check), so one started after a stop() ends at its
\* first check.
C25_FlagStaysSetAndStopsLaterRunners ==
    [][/\ stop_requested => stop_requested'
       /\ stop_called' # stop_called => stop_requested'
       /\ \A id \in DOMAIN runners' \ DOMAIN runners :
             runners'[id].i = 0 /\ runners'[id].at = "loop"
       /\ \A id \in DOMAIN runners :
             (/\ stop_requested
              /\ runners[id].at = "loop" /\ runners[id].i < Iterations
              /\ runners'[id] # runners[id]) =>
                 /\ runners'[id].ret = Some("Stopped early.")
                 /\ runners'[id].i = runners[id].i
       /\ \A id \in DOMAIN runners' :
             runners'[id].ret = Some("Stopped early.") => stop_requested']_vars

\* A runner was stopped while it ran; the runner started after it ended at
\* its first check.
C25_Witness ==
    \E j, id \in RunnerIds :
        /\ j < id
        /\ runners[j].ret = Some("Stopped early.") /\ runners[j].i > 0
        /\ runners[id].thread = "dead"
        /\ runners[id].result = Some("Stopped early.") /\ runners[id].i = 0

\* C26: when an exception other than KeyboardInterrupt has come out of a
\* command into the loop, every runner that was running is signalled before
\* the next command is read; a command that returns a result sets the flag
\* of no runner unless it is exit, and the only other setter is a stop of
\* an analysis.
C26_LoopExceptionStopsRunners ==
    [][/\ (/\ escaped' \in {"Exception", "AttributeError"}
           /\ \E id \in DOMAIN runners' : runners'[id].thread = "alive")
          => stop_requested'
       /\ (escaped' = "none" /\ stop_requested' # stop_requested) =>
             \/ pc # "exited" /\ pc' = "exited" /\ The(result').should_exit
             \/ stop_called' # stop_called]_vars

\* A command failed outside any handler's try while a runner was in its
\* loop, and the runner has been signalled.
C26_Witness ==
    /\ escaped = "AttributeError"
    /\ pc = "prompt"
    /\ stop_requested
    /\ stop_called = {}
    /\ \E id \in RunnerIds : is_running(id) /\ runners[id].i > 0 /\ runners[id].at = "loop"

\* C27: with worker threads that are scheduled fairly, every runner that
\* was started stops running in the end, after at most 100 passes, with
\* "Completed successfully." or "Stopped early." as its result; so none runs
\* forever after the loop has ended.
C27_EveryRunnerEnds ==
    \A id \in 1..MaxRunners :
        (id \in RunnerIds) ~>
            (/\ id \in RunnerIds
             /\ ~is_running(id)
             /\ runners[id].i <= Iterations
             /\ runners[id].result \in {Some("Completed successfully."),
                                        Some("Stopped early.")})

\* Ctrl-C has ended the loop and a runner that was in its loop then has
\* ended early.
C27_Witness ==
    /\ pc = "exited"
    /\ escaped = "KeyboardInterrupt"
    /\ \E id \in RunnerIds :
          /\ ~is_running(id)
          /\ runners[id].i > 0
          /\ runners[id].result = Some("Stopped early.")

\* C28: the alias table is consulted once and before the registry.  After a
\* turn on a name k that the table maps to t, the loop holds the result of the
\* handler registered under t (here info, which returns success and does not
\* end the loop) when t is a command, also when k is itself a command name;
\* and it holds the Unknown-command failure naming k when t is no command,
\* also when t is itself an alias.
C28_AliasResolvedOnceBeforeRegistry ==
    (/\ command \in DOMAIN AliasesLoaded
     /\ escaped = "none"
     /\ result # None) =>
        LET t == AliasesLoaded[command] IN
        IF t \in Registered
        THEN /\ t = "info"
             /\ result = Some(CommandResult(TRUE, NoMessage, FALSE))
             /\ pc = "prompt"
        ELSE /\ result = Some(UnknownResult(command))
             /\ pc = "prompt"

\* "exit" was typed where the alias file maps exit to info and b to q: the
\* info handler ran and the loop goes on.
C28_Witness ==
    /\ command = "exit"
    /\ alias_file.state = "json"
    /\ DOMAIN AliasesLoaded = {"exit", "b"}
    /\ AliasesLoaded["exit"] = "info"
    /\ AliasesLoaded["b"] = "q"
    /\ result = Some(CommandResult(TRUE, NoMessage, FALSE))
    /\ escaped = "none"
    /\ pc = "prompt"

\* A turn of the loop in which the handler registered under one of names ran
\* and returned a result.
TurnOf(names) ==
    /\ pc = "prompt"
    /\ dispatch(command').kind = "handler"
    /\ dispatch(command').name \in names
    /\ escaped' = "none"
    /\ result' # None

\* C29: a load or load_last that returns a failure leaves the loaded
\* portfolio name, the keys and the client as they were.
C29_FailedLoadChangesNothing ==
    [][(TurnOf({"load", "load_last"}) /\ ~The(result').success) =>
          UNCHANGED <<loaded_portfolio_name, keys, client>>]_vars

\* C30: at most one portfolio is loaded and it is never replaced in place:
\* load and load_last typed while a portfolio is loaded fail and leave the
\* name and the keys alone; unload always succeeds and clears name, keys and
\* client; the name changes only from none to a name in a load or load_last
\* turn, or from a name to none in an unload turn.
C30_OnePortfolioNeverReplaced ==
    [][/\ Cardinality(loaded_portfolio_name') <= 1
       /\ (TurnOf({"load", "load_last"}) /\ loaded_portfolio_name # None) =>
             /\ ~The(result').success
             /\ UNCHANGED <<loaded_portfolio_name, keys>>
       /\ TurnOf({"unload"}) =>
             /\ The(result').success
             /\ loaded_portfolio_name' = None
             /\ keys' = None
             /\ client' = None
       /\ loaded_portfolio_name' # loaded_portfolio_name =>
             \/ /\ loaded_portfolio_name = None
                /\ loaded_portfolio_name' # None
                /\ TurnOf({"load", "load_last"})
             \/ /\ loaded_portfolio_name # None
                /\ loaded_portfolio_name' = None
                /\ TurnOf({"unload"})]_vars

\* A load was just refused while a portfolio is loaded, and the file names
\* another portfolio that could have replaced it.
C30_Witness ==
    /\ pc = "prompt"
    /\ command \in {"load", "load_last"}
    /\ loaded_portfolio_name # None
    /\ result = Some(AlreadyActive)
    /\ alpaca_file.state = "json"
    /\ (alpaca_file.portfolios \cup alpaca_file.last_used) \ loaded_portfolio_name # {}

====
